---- MODULE Spec2Model ----
\* Model of the pagination engine of go-anxcloud (pkg/lbaas): the page-fetch
\* implementation GetPage/NextPage over the API client, the synchronous
\* LoopUntil scan and the AsChan streaming goroutine with its cancel function.
EXTENDS Integers, Sequences, FiniteSets, TLC

VARIABLES
    pages,       \* the server's collection: a sequence of page contents
    client,      \* the api's Client: [kind, urlOK, ctxOK]
    untilTrue,   \* the caller's predicate of LoopUntil: [trueAt, errAt]
    pc,          \* position of the LoopUntil call
    page,        \* LoopUntil's local `page` (NoPage before the fetch)
    err,         \* LoopUntil's local `err` of the fetch
    fetches,     \* LoopUntil's calls of the Pageable, in order
    idx,         \* LoopUntil's loop variable i
    result,      \* what LoopUntil returned (an error value, "nil") or "panic"
    predCalls,   \* the elements untilFunc was invoked on, in order
    requests,    \* the requests handed to Client.Do, in order
    decodes,     \* how often a response body was decoded as a page envelope
    consumer,    \* AsChan's consumer channel: "none", "open", "closed"
    done,        \* AsChan's done channel: "none", "open", "closed"
    doneCloses,  \* number of close(done) executions
    sent,        \* the values received by the consumer, in order
    gpc,         \* position of AsChan's goroutine
    deferStack,  \* the goroutine's pending deferred closes (run last first)
    panicking,   \* a deferred close panicked while the goroutine unwinds
    cpc,         \* the consumer: "idle", "recv", "sawClosed"
    cancelled,   \* the consumer has invoked the CancelFunc
    cancelFirst, \* ... and did so before receiving anything
    crashed,     \* the process died of an unrecovered panic
    calls,       \* SpecPage: number of GetPage/NextPage calls made
    cur,         \* SpecPage: result of the last GetPage/NextPage call
    lastNext     \* SpecPage: [prior, asked] of the last NextPage call

vars == <<pages, client, untilTrue, pc, page, err, fetches, idx, result, predCalls, requests,
          decodes, consumer, done, doneCloses, sent, gpc, deferStack,
          panicking, cpc, cancelled, cancelFirst, crashed, calls, cur, lastNext>>

envVars  == <<pages, client, untilTrue>>
loopVars == <<pc, page, err, fetches, idx, result, predCalls>>
httpVars == <<requests, decodes>>
chanVars == <<consumer, done, doneCloses, sent, gpc, deferStack, panicking,
              cpc, cancelled, cancelFirst, crashed>>
pageVars == <<calls, cur, lastNext>>

\* ---------------------------------------------------------------- bounds
MaxPages   == 3   \* pages in the server's collection
MaxContent == 3   \* elements on one page
MaxCalls   == 3   \* GetPage/NextPage calls of one SpecPage walk

\* ------------------------------------------------------- program constants
FirstPage             == 1
DefaultLimit          == 10
StatusOK              == 200
StatusMultipleChoices == 300
ServerErrorFirst      == 500
ServerErrorEnd        == 600

\* ------------------------------------------------------------ error values
Nil                  == "nil"
ErrConditionNeverMet == "looped all items and the condition was never met"
ErrPredicate         == "predicate failed"
ErrTransport         == "transport failure"
ErrParseURL          == "could not parse URL"
ErrNewRequest        == "could not create request object"
ErrDoTransport       == "error when executing request: transport failure"
ErrDoAPI             == "error when executing request: received error from api"
ErrDoAPIDecode       == "error when executing request: could not decode error response"
ErrServer            == "could not get load balancer frontends"
ErrDecode            == "could not parse load balancer frontend list response"

\* --------------------------------------------------------------- the server
RECURSIVE SumTo(_, _)
SumTo(sizes, n) == IF n = 0 THEN 0 ELSE sizes[n] + SumTo(sizes, n - 1)

\* The collections: page p holds consecutive element numbers, so the whole
\* collection in its original order is 1, 2, ..., TotalItems.
Collection(sizes) ==
    [p \in 1..Len(sizes) |->
        [k \in 1..sizes[p] |-> SumTo(sizes, p - 1) + k]]

Collections ==
    { Collection(sizes) :
        sizes \in UNION { [1..n -> 0..MaxContent] : n \in 1..MaxPages } }

RECURSIVE Flatten(_, _)
Flatten(ps, n) == IF n = 0 THEN <<>> ELSE Flatten(ps, n - 1) \o ps[n]

AllElements == Flatten(pages, Len(pages))

\* The page payload (BackendPage / ServerPage) the API serves for ?page=&limit=.
NoPage == [number |-> -1, size |-> -1, totalPages |-> -1, content |-> <<>>]

PagePayload(number, limit) ==
    [number     |-> number,
     size       |-> limit,
     totalPages |-> Len(pages),
     content    |-> IF number \in 1..Len(pages) THEN pages[number] ELSE <<>>]

\* A struct left at its zero value by the JSON decoder (no "data" member).
ZeroPage == [number |-> 0, size |-> 0, totalPages |-> 0, content |-> <<>>]

Statuses == {200, 299, 300, 499, 500, 599}
Bodies   == {"envelope", "otherjson", "garbage"}

\* What http.Client.Do can come back with for one request.
HTTPOutcomes ==
    {[failed |-> TRUE, status |-> 0, body |-> "garbage"]}
    \cup [failed : {FALSE}, status : Statuses, body : Bodies]

Clients == [kind : {"token", "custom"}, urlOK : BOOLEAN, ctxOK : BOOLEAN]

\* ------------------------------------------------------------- client.go
\* handleRequest: one c.Do; a status outside 200..299 becomes an error, after
\* decoding the body as a ResponseError.
handleRequest(h) ==
    IF h.failed THEN [err |-> ErrTransport, status |-> 0, body |-> "garbage"]
    ELSE IF h.status < StatusOK \/ h.status >= StatusMultipleChoices
         THEN IF h.body = "garbage"
              THEN [err |-> "could not decode error response",
                    status |-> h.status, body |-> h.body]
              ELSE [err |-> "received error from api",
                    status |-> h.status, body |-> h.body]
         ELSE [err |-> Nil, status |-> h.status, body |-> h.body]

\* Client.Do: the token client goes through handleRequest; any other
\* implementation of the interface behaves as http.Client.Do.
Do(cl, h) ==
    IF cl.kind = "token" THEN handleRequest(h)
    ELSE IF h.failed THEN [err |-> ErrTransport, status |-> 0, body |-> "garbage"]
         ELSE [err |-> Nil, status |-> h.status, body |-> h.body]

\* json.NewDecoder(response.Body).Decode(&payload) for struct{Page `json:"data"`}
DecodePage(body, number, limit) ==
    IF body = "garbage" THEN [err |-> ErrDecode, page |-> NoPage]
    ELSE IF body = "envelope" THEN [err |-> Nil, page |-> PagePayload(number, limit)]
    ELSE [err |-> Nil, page |-> ZeroPage]

\* ---------------------------------------------------------- paged.go
\* A 5xx check that lets status 500 itself through.
IsServerErrorAbove500(status) == status > ServerErrorFirst /\ status < ServerErrorEnd

\* line 55: the 5xx check on the response Do returned.
IsServerError(status) == status >= ServerErrorFirst /\ status < ServerErrorEnd

\* api.GetPage: the result, with the requests it handed to Do and the number
\* of page decodes it ran.
GetPageFailed(e, reqs) ==
    [page |-> NoPage, err |-> e, requests |-> reqs, decodes |-> 0]

GetPage(cl, h, number, limit) ==
    IF ~cl.urlOK THEN GetPageFailed(ErrParseURL, <<>>)
    ELSE IF ~cl.ctxOK THEN GetPageFailed(ErrNewRequest, <<>>)
    ELSE LET req      == [page |-> number, limit |-> limit]
             response == Do(cl, h)
         IN  IF response.err # Nil
             THEN GetPageFailed(
                    IF response.err = ErrTransport THEN ErrDoTransport
                    ELSE IF response.err = "received error from api" THEN ErrDoAPI
                    ELSE ErrDoAPIDecode, <<req>>)
             ELSE IF IsServerError(response.status)
             THEN GetPageFailed(ErrServer, <<req>>)
             ELSE LET payload == DecodePage(response.body, number, limit)
                  IN  IF payload.err # Nil
                      THEN [page |-> NoPage, err |-> payload.err,
                            requests |-> <<req>>, decodes |-> 1]
                      ELSE [page |-> payload.page, err |-> Nil,
                            requests |-> <<req>>, decodes |-> 1]

\* api.NextPage
NextPage(cl, h, prior) == GetPage(cl, h, prior.number, prior.size)

\* HasNext
HasNext(p) == p.number < p.totalPages

\* ------------------------------------------------------------- reflect
\* Go values as [type, of]; a reflect.Value is itself a Go value, of struct
\* type reflect.Value, that refers to the value it was made from.
Content(p)        == [type |-> "slice", of |-> p.content]
ReflectValueOf(x) == [type |-> "reflect.Value", of |-> x]

\* Value.Kind: the kind of the value referred to.
Kind(rv) == IF rv.of.type = "reflect.Value" THEN "struct" ELSE rv.of.type

\* Value.Len panics unless the kind is Array or Slice (Chan, Map and String
\* do not occur here); LenPanics stands for that panic.
LenPanics == -1
ReflectLen(rv) ==
    IF Kind(rv) \in {"array", "slice"} THEN Len(rv.of.of) ELSE LenPanics

\* Value.Index(i): a reflect.Value referring to the i-th element.
ReflectIndex(rv, i) == ReflectValueOf([type |-> "element", of |-> rv.of.of[i + 1]])

\* The element a value handed to untilFunc refers to.
ElementOf(arg) == arg.of.of
ElementsOf(args) == [k \in 1..Len(args) |-> ElementOf(args[k])]

\* ------------------------------------------------------------ common.go
\* The first fetch with its error check left out.
AfterGetPageUnchecked(r) ==
    [pc |-> "loop", result |-> "running", page |-> r.page]

\* LoopUntil, lines 58-61: the first fetch and its error check.
AfterGetPage(r) ==
    IF r.err # Nil
    THEN [pc |-> "returned", result |-> r.err, page |-> NoPage]
    ELSE [pc |-> "loop", result |-> "running", page |-> r.page]

\* LoopUntil, line 69: the loop bound `reflect.ValueOf(content).Len()`,
\* where content already is the reflect.Value of the page's content.
LoopBound(content) == ReflectLen(ReflectValueOf(content))

\* The caller's predicate of a direct LoopUntil call.
Predicates == [trueAt : 0..(MaxContent + 1), errAt : 0..(MaxContent + 1)]

PredicateOn(e) ==
    IF e = untilTrue.errAt THEN [stop |-> FALSE, err |-> ErrPredicate, send |-> FALSE]
    ELSE [stop |-> e = untilTrue.trueAt, err |-> Nil, send |-> FALSE]

\* AsChan's untilFunc, lines 102-111: the cases of the select that can
\* proceed. The send needs the receiver; the receive from done proceeds only
\* once done is closed, and then stops the loop.
SelectCases ==
    (IF cpc = "recv" /\ consumer = "open"
     THEN {[stop |-> FALSE, err |-> Nil, send |-> TRUE]} ELSE {})
    \cup
    (IF done = "closed"
     THEN {[stop |-> TRUE, err |-> Nil, send |-> FALSE]} ELSE {})

UntilFunc(arg) ==
    IF consumer = "none" THEN {PredicateOn(ElementOf(arg))} ELSE SelectCases

\* LoopUntil line 58: pageable.GetPage(ctx, 1, 10).
GetFirstPage ==
    /\ pc = "fetch"
    /\ ~crashed
    /\ \E h \in HTTPOutcomes :
         LET r    == GetPage(client, h, FirstPage, DefaultLimit)
             next == AfterGetPage(r)
         IN  /\ requests' = requests \o r.requests
             /\ decodes' = decodes + r.decodes
             /\ pc' = next.pc
             /\ result' = next.result
             /\ page' = next.page
             /\ err' = r.err
    /\ fetches' = Append(fetches, [op |-> "GetPage", page |-> FirstPage,
                                   limit |-> DefaultLimit])
    /\ UNCHANGED <<envVars, idx, predCalls, chanVars, pageVars>>

\* LoopUntil lines 63-85: the kind switch and one turn of the loop (the
\* bound, the untilFunc call, the checks on what it returned), or the code
\* after the loop.
LoopStep ==
    /\ pc = "loop"
    /\ ~crashed
    /\ LET content == ReflectValueOf(Content(page))
       IN  IF Kind(content) \notin {"array", "slice"} \/ LoopBound(content) = LenPanics
           THEN /\ pc' = "panicked"
                /\ result' = "panic"
                /\ UNCHANGED <<idx, predCalls, sent>>
           ELSE IF idx < LoopBound(content)
           THEN LET arg == ReflectIndex(content, idx)
                IN  \E o \in UntilFunc(arg) :
                      /\ predCalls' = Append(predCalls, arg)
                      /\ sent' = IF o.send THEN Append(sent, arg) ELSE sent
                      /\ IF o.err # Nil
                         THEN pc' = "returned" /\ result' = o.err /\ idx' = idx
                         ELSE IF o.stop
                         THEN pc' = "returned" /\ result' = Nil /\ idx' = idx
                         ELSE pc' = "loop" /\ result' = result /\ idx' = idx + 1
           ELSE /\ pc' = "returned"
                /\ result' = ErrConditionNeverMet
                /\ UNCHANGED <<idx, predCalls, sent>>
    /\ UNCHANGED <<envVars, page, err, fetches, httpVars, consumer, done, doneCloses, gpc,
                   deferStack, panicking, cpc, cancelled, cancelFirst, crashed,
                   pageVars>>

\* The goroutine without its `defer close(consumer)`.
DeferredDoneOnly == <<"done">>

\* AsChan lines 100-101: the deferred closes, in the order they are deferred.
Deferred == <<"consumer", "done">>

\* AsChan lines 93-99, 113: make the channels, start the goroutine, return.
AsChan ==
    /\ gpc = "unstarted"
    /\ consumer' = "open"
    /\ done' = "open"
    /\ gpc' = "loopUntil"
    /\ deferStack' = Deferred
    /\ pc' = "fetch"
    /\ cpc' = "recv"
    /\ UNCHANGED <<envVars, page, err, fetches, idx, result, predCalls, httpVars, doneCloses,
                   sent, panicking, cancelled, cancelFirst, crashed, pageVars>>

\* The goroutine leaves LoopUntil (return or panic) and runs its most recently
\* deferred close; closing a closed channel panics.
RunDeferred ==
    /\ gpc = "loopUntil"
    /\ pc \in {"returned", "panicked"}
    /\ ~crashed
    /\ deferStack # <<>>
    /\ LET ch == deferStack[Len(deferStack)]
       IN  /\ deferStack' = SubSeq(deferStack, 1, Len(deferStack) - 1)
           /\ IF ch = "done"
              THEN /\ doneCloses' = doneCloses + 1
                   /\ done' = "closed"
                   /\ panicking' = (panicking \/ done = "closed")
                   /\ UNCHANGED consumer
              ELSE /\ consumer' = "closed"
                   /\ UNCHANGED <<done, doneCloses, panicking>>
    /\ UNCHANGED <<envVars, loopVars, httpVars, sent, gpc, cpc, cancelled,
                   cancelFirst, crashed, pageVars>>

\* The goroutine ends: normally, or with an unrecovered panic that ends the
\* process.
GoExit ==
    /\ gpc = "loopUntil"
    /\ pc \in {"returned", "panicked"}
    /\ ~crashed
    /\ deferStack = <<>>
    /\ IF panicking \/ pc = "panicked"
       THEN crashed' = TRUE /\ gpc' = gpc
       ELSE gpc' = "exited" /\ crashed' = crashed
    /\ UNCHANGED <<envVars, loopVars, httpVars, consumer, done, doneCloses, sent,
                   deferStack, panicking, cpc, cancelled, cancelFirst, pageVars>>

\* The CancelFunc, lines 95-97, invoked by the consumer at most once.
Cancel ==
    /\ cpc \in {"recv", "sawClosed"}
    /\ ~cancelled
    /\ ~crashed
    /\ cancelled' = TRUE
    /\ cancelFirst' = (sent = <<>> /\ cpc = "recv")
    /\ doneCloses' = doneCloses + 1
    /\ done' = "closed"
    /\ crashed' = (done = "closed")
    /\ UNCHANGED <<envVars, loopVars, httpVars, consumer, sent, gpc, deferStack,
                   panicking, cpc, pageVars>>

\* The consumer's receive finds the channel closed.
ReceiveClosed ==
    /\ cpc = "recv"
    /\ consumer = "closed"
    /\ ~crashed
    /\ cpc' = "sawClosed"
    /\ UNCHANGED <<envVars, loopVars, httpVars, consumer, done, doneCloses, sent,
                   gpc, deferStack, panicking, cancelled, cancelFirst, crashed,
                   pageVars>>

\* --------------------------------------------------- a walk over the pages
NoCall == [res |-> GetPageFailed(Nil, <<>>), h |-> [failed |-> TRUE, status |-> 0,
           body |-> "garbage"], asked |-> [page |-> 0, limit |-> 0]]
NoNext == [prior |-> NoPage, requests |-> <<>>]

Limits == {2, DefaultLimit}

CallGetPage ==
    /\ calls = 0
    /\ \E h \in HTTPOutcomes, limit \in Limits :
         LET r == GetPage(client, h, FirstPage, limit)
         IN  /\ cur' = [res |-> r, h |-> h,
                        asked |-> [page |-> FirstPage, limit |-> limit]]
             /\ requests' = requests \o r.requests
             /\ decodes' = decodes + r.decodes
    /\ calls' = 1
    /\ UNCHANGED <<envVars, loopVars, chanVars, lastNext>>

CallNextPage ==
    /\ calls \in 1..(MaxCalls - 1)
    /\ cur.res.err = Nil
    /\ \E h \in HTTPOutcomes :
         LET r == NextPage(client, h, cur.res.page)
         IN  /\ cur' = [res |-> r, h |-> h,
                        asked |-> [page |-> cur.res.page.number,
                                   limit |-> cur.res.page.size]]
             /\ lastNext' = [prior |-> cur.res.page, requests |-> r.requests]
             /\ requests' = requests \o r.requests
             /\ decodes' = decodes + r.decodes
    /\ calls' = calls + 1
    /\ UNCHANGED <<envVars, loopVars, chanVars>>

\* ---------------------------------------------------------- specifications
InitEnv ==
    /\ pages \in Collections
    /\ client \in Clients

InitIdle ==
    /\ page = NoPage
    /\ err = Nil
    /\ fetches = <<>>
    /\ idx = 0
    /\ result = "running"
    /\ predCalls = <<>>
    /\ requests = <<>>
    /\ decodes = 0
    /\ doneCloses = 0
    /\ sent = <<>>
    /\ deferStack = <<>>
    /\ panicking = FALSE
    /\ cancelled = FALSE
    /\ cancelFirst = FALSE
    /\ crashed = FALSE
    /\ calls = 0
    /\ cur = NoCall
    /\ lastNext = NoNext

\* A direct LoopUntil call with a caller's predicate.
InitScan ==
    /\ InitEnv
    /\ InitIdle
    /\ untilTrue \in Predicates
    /\ pc = "fetch"
    /\ consumer = "none"
    /\ done = "none"
    /\ gpc = "none"
    /\ cpc = "idle"

NextScan == GetFirstPage \/ LoopStep

SpecScan == InitScan /\ [][NextScan]_vars

\* AsChan with its goroutine and a consumer.
InitChan ==
    /\ InitEnv
    /\ InitIdle
    /\ untilTrue = [trueAt |-> 0, errAt |-> 0]
    /\ pc = "idle"
    /\ consumer = "none"
    /\ done = "none"
    /\ gpc = "unstarted"
    /\ cpc = "idle"

NextChan ==
    \/ AsChan
    \/ GetFirstPage
    \/ LoopStep
    \/ RunDeferred
    \/ GoExit
    \/ Cancel
    \/ ReceiveClosed

SpecChan == InitChan /\ [][NextChan]_vars

\* GetPage followed by NextPage calls on the page returned by the call before.
InitPage ==
    /\ InitEnv
    /\ InitIdle
    /\ untilTrue = [trueAt |-> 0, errAt |-> 0]
    /\ pc = "idle"
    /\ consumer = "none"
    /\ done = "none"
    /\ gpc = "none"
    /\ cpc = "idle"

NextPageWalk == CallGetPage \/ CallNextPage

SpecPage == InitPage /\ [][NextPageWalk]_vars

\* ------------------------------------------------------------------ claims
Ended           == pc \in {"returned", "panicked"}
FirstFetch      == [op |-> "GetPage", page |-> FirstPage, limit |-> DefaultLimit]
FirstPageServed == page = PagePayload(FirstPage, DefaultLimit)
UpTo(k)         == [n \in 1..k |-> n]
OnPage          == { page.content[k] : k \in 1..Len(page.content) }
TaskEnded       == /\ gpc \in {"loopUntil", "exited"}
                   /\ Ended
                   /\ deferStack = <<>>

\* C1: a consumer that never cancels and receives until the output channel is
\* closed has, once the channel is closed, received exactly the elements of
\* all pages P1..Pn, in page order and content order.
C1_StreamDeliversWholeCollection ==
    (consumer = "closed" /\ ~cancelled /\ FirstPageServed)
        => ElementsOf(sent) = AllElements

\* C2: cancelling once, right after AsChan returned and before anything was
\* received, leads to the output channel being closed with at most one
\* element sent: once the execution has come to its end, the channel is
\* closed and at most one element was sent.
C2_CancelFirstClosesOutput ==
    (cancelFirst /\ (crashed \/ gpc = "exited"))
        => (consumer = "closed" /\ Len(sent) <= 1)

\* C3: whenever the background task has ended the output channel is closed,
\* and nothing is sent on the output channel once it is closed.
C3_OutputClosedWhenTaskEnds ==
    /\ [](TaskEnded => consumer = "closed")
    /\ [][consumer = "closed" => sent' = sent]_vars

C3_TaskEndedOnFetchError ==
    /\ gpc = "exited"
    /\ err # Nil
    /\ consumer = "closed"

\* C4: with a predicate true only on the k-th element of page 1, LoopUntil
\* returns nil, has invoked the predicate on exactly the elements 1..k of
\* page 1 in order, and has fetched nothing but GetPage(1, 10).
C4_StopsAtKthElement ==
    (/\ Ended
     /\ FirstPageServed
     /\ untilTrue.trueAt \in 1..Len(page.content)
     /\ untilTrue.errAt \notin 1..untilTrue.trueAt)
        => /\ result = Nil
           /\ ElementsOf(predCalls) = UpTo(untilTrue.trueAt)
           /\ fetches = <<FirstFetch>>

\* C5: with a predicate that is false, without error, on every element of
\* page 1, LoopUntil returns ErrConditionNeverMet, whatever totalPages and
\* the length of the content are.
C5_NeverMetOnFirstPage ==
    (/\ Ended
     /\ err = Nil
     /\ untilTrue.trueAt \notin OnPage
     /\ untilTrue.errAt \notin OnPage)
        => result = ErrConditionNeverMet

\* C6: when the first fetch GetPage(1, 10) fails, LoopUntil has returned that
\* very error, has not invoked the predicate, and has fetched nothing else.
C6_FirstFetchErrorPropagates ==
    err # Nil
        => /\ pc = "returned"
           /\ result = err
           /\ predCalls = <<>>
           /\ fetches = <<FirstFetch>>
           /\ Len(requests) <= 1

C6_FetchFailed ==
    /\ pc = "returned"
    /\ err = ErrDoTransport
    /\ result = ErrDoTransport

\* C7: NextPage on a prior page with number n and size s requests page n + 1
\* at limit s.
C7_NextPageAdvances ==
    lastNext.requests # <<>>
        => lastNext.requests[1] = [page  |-> lastNext.prior.number + 1,
                                   limit |-> lastNext.prior.size]

\* C8: what a GetPage call returns, by what Do returned for its request: an
\* error and no page when the round trip failed; the server error, without
\* decoding, on a 5xx response; the decoding error when the body does not
\* parse; the decoded page otherwise.
C8_ResultByResponse ==
    LET r == cur.res
        d == Do(client, cur.h)
    IN  r.requests # <<>> =>
          /\ r.requests = <<cur.asked>>
          /\ d.err # Nil =>
                r.err # Nil /\ r.page = NoPage /\ r.decodes = 0
          /\ (d.err = Nil /\ d.status \in 500..599) =>
                r.err = ErrServer /\ r.page = NoPage /\ r.decodes = 0
          /\ (d.err = Nil /\ d.status \notin 500..599 /\ d.body = "garbage") =>
                r.err = ErrDecode /\ r.page = NoPage
          /\ (d.err = Nil /\ d.status \notin 500..599 /\ d.body # "garbage") =>
                /\ r.err = Nil
                /\ r.page = DecodePage(d.body, cur.asked.page, cur.asked.limit).page

C9_PredicateErrorAborts ==
    (/\ Ended
     /\ FirstPageServed
     /\ untilTrue.errAt \in 1..Len(page.content)
     /\ untilTrue.trueAt \notin 1..untilTrue.errAt)
        => /\ result = ErrPredicate
           /\ ElementsOf(predCalls) = UpTo(untilTrue.errAt)
           /\ fetches = <<FirstFetch>>

\* C10: with the CancelFunc invoked at most once, the done channel is closed
\* at most once.
C10_DoneClosedAtMostOnce == doneCloses <= 1

====
